---- MODULE Spec2Model ----
(***************************************************************************)
(* task-master: job submission (internal/api), the jobs topic, and the     *)
(* consumer-group worker (internal/worker) with the document-parse handler *)
(* (internal/jobs).  One partition, one consumer-group member.             *)
(*                                                                         *)
(* The durable store is the jobs table, the cache is Redis (keys job:{id}, *)
(* job:{id}:payload, job:{id}:result), the broker is the Kafka topic with  *)
(* the group's marked offset.  Every call to the store, the cache and the  *)
(* broker may fail; the worker process may stop between any two steps and  *)
(* is then restarted from the marked offset.                               *)
(*                                                                         *)
(* The staging directory of the submission service (internal/storage) and  *)
(* the parsing tracker of the handler are read by nothing else: Spec       *)
(* follows the system without them, SpecStaging and SpecStorage follow the *)
(* staging directory, SpecTracker and SpecDelivery the tracker.            *)
(* SpecSubscribers follows the tracker with concurrent callers and         *)
(* subscribers, SpecTiming its processing times, SpecLifecycle the worker  *)
(* from Worker.Start to its return, and SpecCreate the create calls of the *)
(* submission service one step at a time.                                  *)
(***************************************************************************)
EXTENDS Integers, Sequences, FiniteSets, TLC

\* ---------------------------------------------------------------- bounds
MaxJobs == 1            \* rows the submission service may insert
MaxRetryMax == 2        \* KAFKA_RETRY_MAX is drawn from 0..MaxRetryMax
TrackerMaxRetries == 1  \* ParsingTrackerConfig.MaxRetries of the handler
MaxMalformed == 1       \* messages on the topic that are not JSON
MaxPathLen == 4         \* characters of a path handed to the storage
MaxFiles == 1           \* files on the disk of the storage model
MaxDocs == 1            \* document identifiers the tracker may see
MaxCounted == 4         \* the tracker is used while its counters add up to
                        \* less than this
MaxCallers == 2         \* goroutines that call UpdateStatus at a time
MaxChans == 1           \* channels the subscribers have made
ChanCap == 1            \* buffer size of a subscriber's channel
MaxUpdates == 2         \* updates the tracker applies, with subscribers
MaxClock == 2           \* milliseconds the clock of the tracker runs

JobIds == 1..MaxJobs
DocIds == 1..MaxDocs
Callers == 1..MaxCallers
Chans == 1..MaxChans

\* ------------------------------------------------------- program constants
StatusPending == "pending"
StatusFailed == "failed"
StatusCompleted == "completed"
JobTypePDFParse == "pdf_parse"
GenericType == ""       \* handleCreateJob leaves Job.Type at its zero value
NoStatus == "nil"       \* redis.Nil: key job:{id} absent

Statuses == {StatusPending, StatusFailed, StatusCompleted}

VARIABLES
    retryMax,      \* cfg.Kafka.RetryMax
    nextID,        \* the serial of jobs.id
    jobs,          \* the jobs table: id -> row
    redisStatus,   \* cache key job:{id}
    redisPayload,  \* cache key job:{id}:payload is present
    redisResult,   \* cache key job:{id}:result is present
    topic,         \* messages accepted by the broker, in offset order
    marked,        \* number of offsets marked as processed by the group
    cancelled,     \* the worker's context was cancelled or it was signalled
    wpc,           \* worker position: idle, loop, update, mark; dead after
                   \* a panic that nothing recovered
    woff,          \* offsets consumed in this session (next to fetch)
    attempt,       \* processJob: the loop variable
    err,           \* processJob: err after the retry loop
    calls,         \* processJobLogic invocations in this delivery
    wrote,         \* the status UPDATE of this delivery succeeded
    resultSet,     \* job:{id}:result was written in this delivery
    retErr,        \* what processJob returned (TRUE: an error)
    files,         \* the PDF staged by the create call of job id is in the
                   \* staging directory
    disk,          \* storage model: the files that exist, by resolved path
    delErr,        \* storage model: the error the last Delete returned
    statuses,      \* ParsingTracker.statuses: document id -> last update
    metrics,       \* ParsingTracker.metrics
    stages,        \* the stages the last handler run handed to the tracker
    extractor,     \* calls and failures of the text extractor
    subscribers,   \* ParsingTracker.statusSubscribers
    chans,         \* the buffer of each subscriber channel
    inflight,      \* the UpdateStatus call of each caller, between its
                   \* unlock and its return
    applied,       \* updates the tracker has stored so far
    accepted,      \* n of the last update each channel accepted (the
                   \* tracker keeps no such record: for the properties)
    webhook,       \* the webhook configuration, and the goroutines still
                   \* in webhookClient.Send
    now,           \* time.Now(), in milliseconds
    timestamps,    \* Timestamp of the entry in ParsingTracker.statuses
    firstRecord,   \* Timestamp of the first entry a document ever had
    processing,    \* metrics: total and average processing time
    startPC,       \* Worker.Start: start, spawned, wait, select, returned
    consumePC,     \* the goroutine around consumer.Consume: consume,
                   \* session, check, exited
    readyClosed,   \* the channel w.ready holds now is closed
    startWaits,    \* the channel Start receives from: none yet, the one
                   \* in w.ready, or one replaced since (open or closed)
    signalled,     \* SIGINT or SIGTERM was delivered to sigChan
    creating,      \* the create call that is under way, and how far it is
    faults         \* some store, cache or broker call failed, a key
                   \* expired or the worker was restarted

storeVars == <<nextID, jobs, redisStatus, redisPayload, redisResult>>
brokerVars == <<topic, marked>>
workerVars == <<wpc, woff, attempt, err, calls, wrote, resultSet, retErr>>
storageVars == <<disk, delErr>>
trackerVars == <<statuses, metrics, stages, extractor>>
subscriberVars ==
    <<subscribers, chans, inflight, applied, accepted, webhook>>
timeVars == <<now, timestamps, firstRecord, processing>>
lifecycleVars ==
    <<startPC, consumePC, readyClosed, startWaits, signalled>>
\* What the store, the cache, the broker and processJob never read.
asideVars ==
    <<files, storageVars, trackerVars, subscriberVars, timeVars,
      lifecycleVars, creating>>
vars ==
    <<retryMax, storeVars, brokerVars, cancelled, workerVars, files,
      storageVars, trackerVars, subscriberVars, timeVars, lifecycleVars,
      creating, faults>>

StatusUploaded == "uploaded"
StatusParsing == "parsing"
StatusConverting == "converting"
StatusComplete == "complete"
StatusRetrying == "retrying"
\* The document status `failed` is the string of the job status `failed`.

DocumentStatuses ==
    {StatusUploaded, StatusParsing, StatusConverting, StatusComplete,
     StatusFailed, StatusRetrying}

\* ------------------------------------------------------------------ rows
\* A document the tracker has no entry for, and the zero metrics.
NoDocument == [seen |-> FALSE, status |-> "", retryCount |-> 0]

NoMetrics == [total |-> 0, success |-> 0, failure |-> 0, retry |-> 0]

\* A ParsingStatusUpdate as a subscriber sees it; n tells the updates
\* apart: it is the n-th update the tracker stored.
NoUpdate == [doc |-> 0, status |-> "", n |-> 0]

\* No create call is under way.
NoCreate == [busy |-> FALSE, path |-> "", pos |-> 0, id |-> 0]

\* A caller that is not inside UpdateStatus.
NoCall == [busy |-> FALSE, update |-> NoUpdate, rest |-> <<>>]

NoRow ==
    [present |-> FALSE, name |-> "", status |-> "", type |-> "",
     response |-> FALSE]

NewRow(name, type) ==
    [present |-> TRUE, name |-> name, status |-> StatusPending,
     type |-> type, response |-> FALSE]

\* The queue message: the JSON of models.Job; the worker reads id and type.
JobMessage(id, type) == [id |-> id, type |-> type]

\* A message value that is not the JSON of a job: json.Unmarshal fails on it
\* and processJob learns neither an id nor a type.
Malformed == [id |-> 0, type |-> "not json"]

\* json.Unmarshal(message.Value, &job) returns no error.
Parses(msg) == msg # Malformed

\* The state after construction, but for the webhook configuration.
InitApp ==
    /\ retryMax \in 0..MaxRetryMax
    /\ nextID = 1
    /\ jobs = [id \in JobIds |-> NoRow]
    /\ redisStatus = [id \in JobIds |-> NoStatus]
    /\ redisPayload = [id \in JobIds |-> FALSE]
    /\ redisResult = [id \in JobIds |-> FALSE]
    /\ topic = <<>>
    /\ marked = 0
    /\ cancelled = FALSE
    /\ wpc = "idle"
    /\ woff = 0
    /\ attempt = 1
    /\ err = FALSE
    /\ calls = 0
    /\ wrote = FALSE
    /\ resultSet = FALSE
    /\ retErr = FALSE
    /\ files = [id \in JobIds |-> FALSE]
    /\ disk = {}
    /\ delErr = "nil"
    /\ statuses = [d \in DocIds |-> NoDocument]
    /\ metrics = NoMetrics
    /\ stages = <<>>
    /\ extractor = [calls |-> 0, failures |-> 0]
    /\ subscribers = <<>>
    /\ chans = [ch \in Chans |-> <<>>]
    /\ inflight = [c \in Callers |-> NoCall]
    /\ applied = 0
    /\ accepted = [ch \in Chans |-> 0]
    /\ now = 0
    /\ timestamps = [d \in DocIds |-> 0]
    /\ firstRecord = [d \in DocIds |-> 0]
    /\ processing = [total |-> 0, average |-> 0]
    /\ startPC = "start"
    /\ consumePC = "consume"
    /\ readyClosed = FALSE
    /\ startWaits = "none"
    /\ signalled = FALSE
    /\ creating = NoCreate
    /\ faults = FALSE

\* The handler's tracker is made with DefaultParsingTrackerConfig: webhooks
\* are disabled.
Init ==
    /\ InitApp
    /\ webhook = [enabled |-> FALSE, sending |-> 0]

\* ------------------------------------------------------ local storage
\* A path is a string over three characters; ".." stands for the two dots
\* of a parent reference.  The staging directory is /t.
PathChars == {"/", "t", ".."}
Paths == UNION {[1..n -> PathChars] : n \in 0..MaxPathLen}
TempDir == <<"/", "t">>

\* The names os.CreateTemp makes from the pattern pdf-*.pdf: no separator
\* and no parent reference in them.
TempNames ==
    {[i \in 1..n |-> "t"] : n \in 1..(MaxPathLen - Len(TempDir) - 1)}

\* os.CreateTemp(s.tempDir, "pdf-*.pdf"): the directory as given, a
\* separator, the name.
CreateTemp(name) == TempDir \o <<"/">> \o name

\* The components of a path: the runs of characters between separators.
RECURSIVE Components(_)
Components(p) ==
    IF p = <<>> THEN <<>>
    ELSE IF Head(p) = "/" THEN Components(Tail(p))
    ELSE LET n == CHOOSE k \in 1..Len(p) :
                     /\ \A i \in 1..k : p[i] # "/"
                     /\ (k = Len(p) \/ p[k + 1] = "/")
         IN  <<SubSeq(p, 1, n)>> \o Components(SubSeq(p, n + 1, Len(p)))

\* The components after the parent references are followed (a parent
\* reference at the root stays at the root).
RECURSIVE Follow(_, _)
Follow(done, rest) ==
    IF rest = <<>> THEN done
    ELSE IF Head(rest) = <<"..">>
      THEN Follow(IF done = <<>> THEN <<>>
                  ELSE SubSeq(done, 1, Len(done) - 1), Tail(rest))
    ELSE Follow(Append(done, Head(rest)), Tail(rest))

\* The file a path names, as the list of its components from the root (a
\* relative path is taken from the root).
Resolve(p) == Follow(<<>>, Components(p))

\* The path names something below the staging directory.
Descendant(p) ==
    LET r == Resolve(p)
        d == Resolve(TempDir)
    IN  Len(r) > Len(d) /\ SubSeq(r, 1, Len(d)) = d

\* filepath.HasPrefix is strings.HasPrefix: character by character, with
\* no regard to where a component ends.
HasPrefix(p, prefix) ==
    Len(p) >= Len(prefix) /\ SubSeq(p, 1, Len(prefix)) = prefix

\* The places where a file can be: not the root, not the staging directory.
FilePaths == {Resolve(p) : p \in Paths} \ {<<>>, Resolve(TempDir)}

\* StoreFromURL, StoreFromBytes: a new file in the staging directory, whose
\* path CreateTemp(name) is returned; when the download or the write fails
\* the file is removed again and the call returns an error and no path.
Store(name, ok) ==
    /\ Cardinality(disk) < MaxFiles
    /\ Resolve(CreateTemp(name)) \notin disk
    /\ disk' = IF ok THEN disk \cup {Resolve(CreateTemp(name))} ELSE disk
    /\ UNCHANGED delErr

\* LocalStorage.Delete: the error it returns and the file it removes.
DeleteError(p) ==
    IF ~HasPrefix(p, TempDir) THEN "invalid file path"
    ELSE IF Resolve(p) \notin disk THEN "remove"
    ELSE "nil"

Delete(p) ==
    /\ delErr' = DeleteError(p)
    /\ disk' = IF DeleteError(p) = "nil" THEN disk \ {Resolve(p)} ELSE disk

\* Another program writes a file somewhere on the disk.
WriteFile(f) ==
    /\ Cardinality(disk) < MaxFiles
    /\ f \notin disk
    /\ disk' = disk \cup {f}
    /\ UNCHANGED delErr

\* ------------------------------------------------- submission service
\* The steps of a create call, in the order in which the handler takes
\* them.  A call fails at one of them or at none.
CreateJobStepsPublishFirst == <<"body", "db", "kafka", "redis">>

CreateJobSteps == <<"body", "db", "redis", "kafka">>

PDFParseStepsPublishFirst ==
    <<"body", "validate", "stage", "marshal", "kafka", "db", "payload",
      "status">>

PDFParseSteps ==
    <<"body", "validate", "stage", "marshal", "db", "payload", "status",
      "kafka">>

StepsOf(steps) == {steps[i] : i \in 1..Len(steps)}
CreateJobFails == {"none"} \cup StepsOf(CreateJobSteps)
PDFParseFails == {"none"} \cup StepsOf(PDFParseSteps)
ClientErrors == {"body", "validate"}

StepIndex(steps, step) == CHOOSE i \in 1..Len(steps) : steps[i] = step

\* The call that fails at `fail` has taken `step` with success.
Done(steps, step, fail) ==
    fail = "none" \/ StepIndex(steps, step) < StepIndex(steps, fail)

\* Status code of handleCreateJob when step `fail` fails for a request with
\* this name.
CreateJobCodeLenient(name, fail) ==
    IF fail = "body" \/ name = "" THEN 400
    ELSE IF fail \in {"none", "redis"} THEN 200 ELSE 500

CreateJobCode(name, fail) ==
    IF fail = "body" \/ name = "" THEN 400
    ELSE IF fail = "none" THEN 200 ELSE 500

\* POST /api/jobs.  The request struct has the field name only: a `type` in
\* the body is dropped, and the row and the message carry no type.
handleCreateJob(name, type, fail) ==
    LET code == CreateJobCode(name, fail)
        id == nextID
        inserted == code # 400 /\ Done(CreateJobSteps, "db", fail)
        cached == code # 400 /\ Done(CreateJobSteps, "redis", fail)
        sent == code # 400 /\ Done(CreateJobSteps, "kafka", fail)
    IN  /\ nextID <= MaxJobs
        /\ nextID' = IF inserted THEN nextID + 1 ELSE nextID
        /\ jobs' = IF inserted
                     THEN [jobs EXCEPT ![id] = NewRow(name, GenericType)]
                     ELSE jobs
        /\ redisStatus' = IF cached
                            THEN [redisStatus EXCEPT ![id] = StatusPending]
                            ELSE redisStatus
        /\ topic' = IF sent
                      THEN Append(topic, JobMessage(id, GenericType))
                      ELSE topic
        /\ faults' = (faults \/ fail \in {"db", "redis", "kafka"})
        /\ UNCHANGED <<retryMax, asideVars, cancelled, redisPayload,
                       redisResult, marked, workerVars>>

\* Status code of handlePDFParseJob when step `fail` fails.
PDFParseCode(fail) ==
    IF fail \in ClientErrors THEN 400
    ELSE IF fail = "none" THEN 200 ELSE 500

Sources == {"url", "base64"}

\* The failure the handler sees.  In the base64 branch `pdfData, err :=`
\* declares a new err, StoreFromBytes assigns to that one, and the check
\* after the branch reads the outer err, which is still nil: a failed file
\* write goes unseen and the handler goes on with an empty path.
PDFParseSeen(source, fail) ==
    IF fail = "stage" /\ source = "base64" THEN "none" ELSE fail

\* The steps whose failure branch calls s.storage.Delete(ctx, pdfPath)
\* before it answers.
DeletesOnFailureButPublish == {"marshal", "db", "payload", "status"}

DeletesOnFailure == {"marshal", "db", "payload", "status", "kafka"}

\* A handler that stages the PDF before it validates the payload.
StagedFileKeptUnvalidated(source, fail) ==
    /\ fail \notin {"body", "stage"}
    /\ \/ PDFParseSeen(source, fail) \notin DeletesOnFailure
       \/ \E name \in TempNames : ~HasPrefix(CreateTemp(name), TempDir)

\* The call leaves the file it staged in the staging directory: the file
\* was written and no failure branch deleted it (Delete accepts the path
\* that CreateTemp made).
StagedFileKept(source, fail) ==
    /\ Done(PDFParseSteps, "stage", fail)
    /\ \/ PDFParseSeen(source, fail) \notin DeletesOnFailure
       \/ \E name \in TempNames : ~HasPrefix(CreateTemp(name), TempDir)

\* POST /api/jobs/parse-document: what the call does to the store, the
\* cache and the broker.  A request that is refused takes no id.
handlePDFParseJob(name, source, fail) ==
    LET seen == PDFParseSeen(source, fail)
        id == nextID
        inserted == Done(PDFParseSteps, "db", seen)
        staged == Done(PDFParseSteps, "payload", seen)
        cached == Done(PDFParseSteps, "status", seen)
        sent == Done(PDFParseSteps, "kafka", seen)
    IN  /\ fail \in ClientErrors \/ nextID <= MaxJobs
        /\ nextID' = IF inserted THEN nextID + 1 ELSE nextID
        /\ jobs' = IF inserted
                     THEN [jobs EXCEPT ![id] = NewRow(name, JobTypePDFParse)]
                     ELSE jobs
        /\ redisPayload' = IF staged
                             THEN [redisPayload EXCEPT ![id] = TRUE]
                             ELSE redisPayload
        /\ redisStatus' = IF cached
                            THEN [redisStatus EXCEPT ![id] = StatusPending]
                            ELSE redisStatus
        /\ topic' = IF sent
                      THEN Append(topic, JobMessage(id, JobTypePDFParse))
                      ELSE topic
        /\ faults' = (faults \/ fail \notin (ClientErrors \cup {"none"}))
        /\ UNCHANGED <<retryMax, storageVars, trackerVars, subscriberVars,
                       timeVars, lifecycleVars, creating, cancelled,
                       redisResult, marked, workerVars>>

\* A create call taken step by step.  There are three create paths:
\* handleCreateJob and handlePDFParseJob of the API server, and createJob
\* of the first server (main.go), which takes the steps of handleCreateJob
\* in the same order.
CreatePaths == {"api", "pdf", "legacy"}

PathSteps(path) == IF path = "pdf" THEN PDFParseSteps ELSE CreateJobSteps

PathType(path) == IF path = "pdf" THEN JobTypePDFParse ELSE GenericType

\* createJob logs a failed SET of job:{id} and goes on to publish.
IgnoresFailure(path, step) == path = "legacy" /\ step = "redis"

\* A request arrives on one of the paths.
BeginCreate(path) ==
    /\ ~creating.busy
    /\ nextID <= MaxJobs
    /\ creating' = [busy |-> TRUE, path |-> path, pos |-> 1, id |-> 0]
    /\ UNCHANGED <<retryMax, files, storageVars, trackerVars, subscriberVars,
                   timeVars, lifecycleVars, cancelled, storeVars, brokerVars,
                   workerVars, faults>>

\* The next step of the call under way succeeds or fails: the call goes on
\* after a success and after a failure it ignores, and answers otherwise.
\* The file of a parse-document call is followed in SpecStaging.
CreateStep(ok) ==
    /\ creating.busy
    /\ LET path == creating.path
           steps == PathSteps(path)
           step == steps[creating.pos]
           id == IF step = "db" THEN nextID ELSE creating.id
           goesOn == ok \/ IgnoresFailure(path, step)
       IN  /\ nextID' = IF step = "db" /\ ok THEN nextID + 1 ELSE nextID
           /\ jobs' = IF step = "db" /\ ok
                        THEN [jobs EXCEPT
                                ![id] = NewRow("Test Job", PathType(path))]
                        ELSE jobs
           /\ redisPayload' = IF step = "payload" /\ ok
                                THEN [redisPayload EXCEPT ![id] = TRUE]
                                ELSE redisPayload
           /\ redisStatus' = IF step \in {"redis", "status"} /\ ok
                               THEN [redisStatus EXCEPT ![id] = StatusPending]
                               ELSE redisStatus
           /\ topic' = IF step = "kafka" /\ ok
                         THEN Append(topic, JobMessage(id, PathType(path)))
                         ELSE topic
           /\ creating' = IF goesOn /\ creating.pos < Len(steps)
                            THEN [creating EXCEPT !.pos = @ + 1, !.id = id]
                            ELSE NoCreate
           /\ faults' = (faults \/ (~ok /\ step \notin ClientErrors))
    /\ UNCHANGED <<retryMax, files, storageVars, trackerVars, subscriberVars,
                   timeVars, lifecycleVars, cancelled, redisResult, marked,
                   workerVars>>

\* The job a GET returns for row id.  The query selects id, name and status
\* only, so Job.Type stays at its zero value; the status is replaced by
\* the value of job:{id} when the Redis GET returns no error (redisOk: the
\* call did not fail; a missing key is redis.Nil, an error too).
JobView(id, redisOk) ==
    [id |-> id,
     name |-> jobs[id].name,
     status |-> IF redisOk /\ redisStatus[id] # NoStatus
                  THEN redisStatus[id] ELSE jobs[id].status,
     type |-> GenericType]

\* GET /api/jobs/:id
handleGetJob(id, redisOk) ==
    IF id \in JobIds /\ jobs[id].present
      THEN [code |-> 200, job |-> JobView(id, redisOk)]
      ELSE [code |-> 404, job |-> JobView(1, FALSE)]

\* GET /api/jobs: the rows by created_at, newest first.
handleListJobs(redisOk) ==
    [i \in 1..(nextID - 1) |-> JobView(nextID - i, redisOk)]

\* ------------------------------------------------ document-parse handler
\* How one attempt of ParseDocumentWithTracking's retry loop ends.
AttemptOutcomes ==
    {"extract_err", "llm_err", "db_err", "bad_json", "ok", "panic"}

\* UPDATE jobs SET response runs before the LLM output is parsed as JSON, so
\* an attempt that ends in bad_json has already written the response.
WritesResponse(o) == o \in {"bad_json", "ok"}

MaxAttempts == TrackerMaxRetries + 1

\* The runs of the handler's loop: it stops at the first attempt that
\* succeeds or panics, and after MaxAttempts attempts otherwise.
HandlerRuns ==
    UNION {{r \in [1..n -> AttemptOutcomes] :
              /\ \A i \in 1..(n - 1) : r[i] \notin {"ok", "panic"}
              /\ (r[n] \in {"ok", "panic"} \/ n = MaxAttempts)} :
           n \in 1..MaxAttempts}

\* ParseDocumentWithTracking returns finalErr, the error of the last attempt.
RunFails(r) == r[Len(r)] # "ok"

\* The deferred function of ParseDocumentWithTracking recovers a panic,
\* updates the tracker and panics again with the same value: the run ends
\* in a panic that leaves the handler.
RunPanics(r) == r[Len(r)] = "panic"
RunWritesResponse(r) == \E i \in 1..Len(r) : WritesResponse(r[i])

\* ------------------------------------------------------ parsing tracker
\* UpdateStatus, the entry it stores: the retry count is the previous one,
\* plus one for `retrying`, when the document has an entry, and zero when
\* it has none.
StoredUpdate(st, d, status) ==
    [seen |-> TRUE,
     status |-> status,
     retryCount |-> IF status = StatusRetrying /\ st[d].seen
                      THEN st[d].retryCount + 1
                    ELSE IF st[d].seen THEN st[d].retryCount
                    ELSE 0]

\* updateMetrics.  It runs after the entry was stored and looks the
\* document up again: st is the table with the new entry in it, so that
\* `exists` holds and prevStatus is the update itself.
updateMetrics(m, st, d, status) ==
    LET exists == st[d].seen
        prevStatus == st[d]
        one(b) == IF b THEN 1 ELSE 0
    IN  [total |-> m.total
                     + one(~exists \/ prevStatus.status = StatusUploaded),
         success |-> m.success + one(status = StatusComplete),
         failure |-> m.failure + one(status = StatusFailed),
         retry |-> m.retry + one(status = StatusRetrying)]

\* The tracker, as the pair of its table and its metrics, after
\* UpdateStatus(d, status, err).
TrackerAfter(tr, d, status) ==
    LET st == [tr.statuses EXCEPT ![d] = StoredUpdate(tr.statuses, d, status)]
    IN  [statuses |-> st,
         metrics |-> updateMetrics(tr.metrics, st, d, status)]

RECURSIVE TrackerAfterAll(_, _, _)
TrackerAfterAll(tr, d, seq) ==
    IF seq = <<>> THEN tr
    ELSE TrackerAfterAll(TrackerAfter(tr, d, Head(seq)), d, Tail(seq))

\* ShouldRetry
ShouldRetryUpToMax(d) ==
    IF ~statuses[d].seen THEN FALSE
    ELSE /\ statuses[d].status = StatusFailed
         /\ statuses[d].retryCount <= TrackerMaxRetries

ShouldRetry(d) ==
    IF ~statuses[d].seen THEN FALSE
    ELSE /\ statuses[d].status = StatusFailed
         /\ statuses[d].retryCount < TrackerMaxRetries

\* The stages one attempt of ParseDocumentWithTracking hands to the
\* tracker: `retrying` first when it is not the first attempt, `parsing`
\* before the payload is read and again before the text is extracted,
\* `converting` before the LLM call, and `failed` or `complete` at its end.
\* A panic is taken to come from the extractor; the deferred function
\* records `failed` for it.
RetryStagesSilent(i) == <<>>

RetryStages(i) == IF i > 1 THEN <<StatusRetrying>> ELSE <<>>

AttemptStages(o) ==
    <<StatusParsing, StatusParsing>>
      \o (IF o \in {"extract_err", "panic"} THEN <<>>
          ELSE <<StatusConverting>>)
      \o <<IF o = "ok" THEN StatusComplete ELSE StatusFailed>>

RECURSIVE AttemptsStages(_, _)
AttemptsStages(run, i) ==
    IF i > Len(run) THEN <<>>
    ELSE RetryStages(i) \o AttemptStages(run[i]) \o AttemptsStages(run, i + 1)

\* All the stages of a run: `uploaded` first, on every run.
RunStages(run) == <<StatusUploaded>> \o AttemptsStages(run, 1)

\* The extractor is called once in every attempt.
ExtractorAfter(run) ==
    [calls |-> extractor.calls + Len(run),
     failures |-> extractor.failures
                    + Cardinality({i \in 1..Len(run) :
                                     run[i] \in {"extract_err", "panic"}})]

\* tracker.UpdateStatus(d, status, err), called on its own.
TrackerUpdateStatus(d, status) ==
    LET tr == TrackerAfter([statuses |-> statuses, metrics |-> metrics],
                           d, status)
    IN  /\ statuses' = tr.statuses
        /\ metrics' = tr.metrics
        /\ UNCHANGED <<stages, extractor>>

\* What a run of ParseDocumentWithTracking for document d does to the
\* tracker and to the extractor.
ParseDocumentWithTracking(d, run) ==
    LET tr == TrackerAfterAll([statuses |-> statuses, metrics |-> metrics],
                              d, RunStages(run))
    IN  /\ statuses' = tr.statuses
        /\ metrics' = tr.metrics
        /\ stages' = RunStages(run)
        /\ extractor' = ExtractorAfter(run)

\* ------------------------------------------------- tracker subscribers
Range(seq) == {seq[i] : i \in 1..Len(seq)}

\* The subscriber list is kept short.
MaxSubscribers == MaxChans

\* Subscribe: the channel is appended, whether it is in the list or not.
Subscribe(ch) ==
    /\ Len(subscribers) < MaxSubscribers
    /\ subscribers' = Append(subscribers, ch)
    /\ UNCHANGED <<chans, inflight, applied, accepted, webhook>>

\* The list without its first entry that is ch.
RECURSIVE RemoveFirst(_, _)
RemoveFirst(seq, ch) ==
    IF seq = <<>> THEN <<>>
    ELSE IF Head(seq) = ch THEN Tail(seq)
    ELSE <<Head(seq)>> \o RemoveFirst(Tail(seq), ch)

\* Unsubscribe
Unsubscribe(ch) ==
    /\ subscribers' = RemoveFirst(subscribers, ch)
    /\ UNCHANGED <<chans, inflight, applied, accepted, webhook>>

\* select { case ch <- update: default: } on a channel with this buffer.
TrySendDropOldest(buf, update) ==
    IF Len(buf) < ChanCap THEN Append(buf, update)
    ELSE Append(Tail(buf), update)

TrySend(buf, update) ==
    IF Len(buf) < ChanCap THEN Append(buf, update) ELSE buf

\* UpdateStatus of caller c, from Lock to Unlock: the entry is stored, the
\* metrics are updated and the subscriber list is copied.  With no
\* subscriber the call returns right after.  The goroutine for the webhook
\* is started between the unlock and the first send; starting it waits
\* for nothing, and it is counted here.
UpdateStatusLocked(c, d, status) ==
    /\ ~inflight[c].busy
    /\ applied < MaxUpdates
    /\ TrackerUpdateStatus(d, status)
    /\ applied' = applied + 1
    /\ webhook' = IF webhook.enabled
                    THEN [webhook EXCEPT !.sending = @ + 1] ELSE webhook
    /\ inflight' =
          [inflight EXCEPT ![c] =
             IF subscribers = <<>> THEN NoCall
             ELSE [busy |-> TRUE,
                   update |-> [doc |-> d, status |-> status,
                               n |-> applied + 1],
                   rest |-> subscribers]]
    /\ UNCHANGED <<subscribers, chans, accepted>>

\* UpdateStatus of caller c, one turn of the loop over its copy of the
\* subscriber list; after the last turn the call returns.
NotifySubscriber(c) ==
    /\ inflight[c].busy
    /\ LET ch == Head(inflight[c].rest)
           rest == Tail(inflight[c].rest)
           update == inflight[c].update
       IN  /\ chans' = [chans EXCEPT ![ch] = TrySend(@, update)]
           /\ accepted' = IF Len(chans[ch]) < ChanCap
                             THEN [accepted EXCEPT ![ch] = update.n]
                             ELSE accepted
           /\ inflight' = [inflight EXCEPT ![c] =
                             IF rest = <<>> THEN NoCall
                             ELSE [@ EXCEPT !.rest = rest]]
    /\ UNCHANGED <<subscribers, applied, webhook, trackerVars>>

\* A subscriber receives from its channel.
TakeUpdate(ch) ==
    /\ chans[ch] # <<>>
    /\ chans' = [chans EXCEPT ![ch] = Tail(@)]
    /\ UNCHANGED <<subscribers, inflight, applied, accepted, webhook>>

\* webhookClient.Send returns in its goroutine, after whatever time the
\* endpoint takes.
WebhookSent ==
    /\ webhook.sending > 0
    /\ webhook' = [webhook EXCEPT !.sending = @ - 1]
    /\ UNCHANGED <<subscribers, chans, inflight, applied, accepted>>

\* ---------------------------------------------- tracker processing time
\* updateMetrics, the processing time: for a `complete` update the time
\* from prevStatus.Timestamp to update.Timestamp is added to the total and
\* the average is recomputed.  prevStatus is read from the table after the
\* update was stored (stamps is the table of timestamps with the new entry
\* in it), and m is the metrics with the update counted.
updateProcessingTime(p, m, stamps, d, status, t) ==
    IF status = StatusComplete
      THEN LET total == p.total + (t - stamps[d])
           IN  [total |-> total,
                average |-> IF m.success > 0
                              THEN total \div m.success ELSE p.average]
      ELSE p

\* UpdateStatus with its timestamp: update.Timestamp is time.Now().
TimedUpdateStatus(d, status) ==
    LET stamps == [timestamps EXCEPT ![d] = now]
    IN  /\ TrackerUpdateStatus(d, status)
        /\ timestamps' = stamps
        /\ firstRecord' = IF statuses[d].seen THEN firstRecord
                            ELSE [firstRecord EXCEPT ![d] = now]
        /\ processing' = updateProcessingTime(processing, metrics', stamps,
                                                d, status, now)
        /\ UNCHANGED now

\* A millisecond passes.
Tick ==
    /\ now < MaxClock
    /\ now' = now + 1
    /\ UNCHANGED <<timestamps, firstRecord, processing>>

\* ------------------------------------------------------------- worker
CurrentMessage == topic[woff + 1]

\* processJobLogic: TRUE when it returns an error.  getOk: the Redis GET of
\* job:{id}:payload succeeded; run: what the document-parse handler did;
\* setOk: the Redis SET of job:{id}:result succeeded.
LogicFails(msg, getOk, run, setOk) ==
    IF ~(getOk /\ redisPayload[msg.id]) THEN TRUE
    ELSE IF msg.type = JobTypePDFParse THEN RunFails(run) \/ ~setOk
    ELSE msg.id % 5 = 0

\* The handler ran (the payload was fetched and the job is a pdf_parse job).
HandlerRan(msg, getOk) ==
    getOk /\ redisPayload[msg.id] /\ msg.type = JobTypePDFParse

\* The handler runs and result writes to consider for the current message:
\* one canonical value where processJobLogic does not get that far.
\* For the worker an extractor error, an LLM error and a failed write of
\* the response are one kind of attempt: the handler fails and has written
\* no response.
WorkerRuns ==
    {run \in HandlerRuns :
        \A i \in 1..Len(run) : run[i] \notin {"llm_err", "db_err"}}

RunsOf(getOk) ==
    IF wpc = "loop" /\ HandlerRan(CurrentMessage, getOk)
      THEN WorkerRuns ELSE {<<"ok">>}

SetsOf(getOk, run) ==
    IF wpc = "loop" /\ HandlerRan(CurrentMessage, getOk) /\ ~RunFails(run)
      THEN BOOLEAN ELSE {TRUE}

\* A consumer that takes the next message while the current one is still
\* unmarked.
ReceiveAhead ==
    /\ wpc \in {"idle", "mark"}
    /\ ~cancelled
    /\ LET off == IF wpc = "mark" THEN woff + 1 ELSE woff
       IN  /\ off < Len(topic)
           /\ woff' = off
           /\ wpc' = IF ~Parses(topic[off + 1]) THEN "mark"
                     ELSE IF 1 <= retryMax THEN "loop" ELSE "update"
           /\ retErr' = ~Parses(topic[off + 1])
    /\ attempt' = 1 /\ err' = FALSE /\ calls' = 0 /\ wrote' = FALSE
    /\ UNCHANGED <<retryMax, asideVars, cancelled, storeVars, brokerVars,
                   resultSet, faults>>

\* ConsumeClaim receives the next message of the claim and processJob
\* parses it: on a parse error it returns the error at once, otherwise it
\* enters the retry loop.
Receive ==
    /\ wpc = "idle"
    /\ ~cancelled
    /\ woff < Len(topic)
    /\ wpc' = IF ~Parses(CurrentMessage) THEN "mark"
               ELSE IF 1 <= retryMax THEN "loop" ELSE "update"
    /\ retErr' = ~Parses(CurrentMessage)
    /\ UNCHANGED <<attempt, err, calls, wrote, resultSet>>
    /\ UNCHANGED <<retryMax, asideVars, cancelled, storeVars, brokerVars,
                   woff, faults>>

\* One iteration of the retry loop of processJob: a call of
\* processJobLogic, then break, or sleep and attempt++.
Attempt(getOk, run, setOk) ==
    /\ wpc = "loop"
    /\ LET msg == CurrentMessage
           ran == HandlerRan(msg, getOk)
           failed == LogicFails(msg, getOk, run, setOk)
       IN  /\ jobs' = IF ran /\ RunWritesResponse(run)
                        THEN [jobs EXCEPT ![msg.id].response = TRUE]
                        ELSE jobs
           /\ redisResult' = IF ran /\ ~RunFails(run) /\ setOk
                               THEN [redisResult EXCEPT ![msg.id] = TRUE]
                               ELSE redisResult
           /\ resultSet' = (resultSet \/ (ran /\ ~RunFails(run) /\ setOk))
           /\ err' = IF ran /\ RunPanics(run) THEN err ELSE failed
           /\ calls' = calls + 1
           /\ attempt' = IF failed /\ ~(ran /\ RunPanics(run))
                           THEN attempt + 1 ELSE attempt
           /\ wpc' = IF ran /\ RunPanics(run) THEN "dead"
                     ELSE IF failed /\ attempt + 1 <= retryMax
                       THEN "loop" ELSE "update"
           /\ faults' = (faults \/ ~getOk
                           \/ (ran /\ (RunFails(run) \/ ~setOk
                                         \/ Len(run) > 1)))
    /\ UNCHANGED <<retryMax, files, storageVars, subscriberVars, timeVars,
                   lifecycleVars, creating, cancelled, nextID, redisStatus,
                   redisPayload, brokerVars, woff, wrote, retErr>>

\* The status the worker writes after the loop.
FinalStatus(e) == IF e THEN StatusFailed ELSE StatusCompleted

\* processJob after the loop: UPDATE jobs SET status, then SET job:{id}.
\* A failed UPDATE of `failed` is only logged; a failed UPDATE of
\* `completed` returns before the cache is written.
UpdateStatus(dbOk, redisOk) ==
    /\ wpc = "update"
    /\ LET id == CurrentMessage.id
           st == FinalStatus(err)
           cacheWritten == redisOk /\ (err \/ dbOk)
           row == IF dbOk THEN st ELSE jobs[id].status
           cache == IF cacheWritten THEN st ELSE redisStatus[id]
       IN  /\ jobs' = [jobs EXCEPT ![id].status = row]
           /\ redisStatus' = [redisStatus EXCEPT ![id] = cache]
           /\ wrote' = dbOk
           /\ retErr' = (err \/ ~dbOk)
           /\ faults' = (faults \/ ~dbOk \/ ~redisOk)
    /\ wpc' = "mark"
    /\ UNCHANGED <<retryMax, asideVars, cancelled, nextID, redisPayload,
                   redisResult, brokerVars, woff, attempt, err, calls,
                   resultSet>>

\* The locals of processJob outside a call.
ResetLocals ==
    /\ attempt' = 1
    /\ err' = FALSE
    /\ calls' = 0
    /\ wrote' = FALSE
    /\ resultSet' = FALSE
    /\ retErr' = FALSE

\* ConsumeClaim after processJob returned: session.MarkMessage, whatever
\* processJob returned; then the next iteration of the range loop.
MarkMessageOnSuccess ==
    /\ wpc = "mark"
    /\ marked' = IF retErr THEN marked ELSE woff + 1
    /\ woff' = woff + 1
    /\ wpc' = "idle"
    /\ ResetLocals
    /\ UNCHANGED <<retryMax, asideVars, cancelled, storeVars, topic, faults>>

MarkMessage ==
    /\ wpc = "mark"
    /\ marked' = woff + 1
    /\ woff' = woff + 1
    /\ wpc' = "idle"
    /\ ResetLocals
    /\ UNCHANGED <<retryMax, asideVars, cancelled, storeVars, topic, faults>>

\* ---------------------------------------------------- worker lifecycle
\* Worker.Start up to the goroutines it starts.
StartSpawn ==
    /\ startPC = "start"
    /\ startPC' = "spawned"
    /\ UNCHANGED <<consumePC, readyClosed, startWaits, signalled>>

\* Worker.Start at `<-w.ready`: the field is read once, and the receive
\* waits on the channel that was in it then.  The goroutine around Consume
\* writes the field without synchronisation: the read sees the channel
\* from before or from after such a write.
StartReadsReady ==
    /\ startPC = "spawned"
    /\ startPC' = "wait"
    /\ startWaits' = "ready"
    /\ UNCHANGED <<consumePC, readyClosed, signalled>>

\* The channel Start waits on is closed.
ReadyFired ==
    \/ startWaits = "closed"
    \/ startWaits = "ready" /\ readyClosed

StartReady ==
    /\ startPC = "wait"
    /\ ReadyFired
    /\ startPC' = "select"
    /\ UNCHANGED <<consumePC, readyClosed, startWaits, signalled>>

\* Worker.Start at its select: a signal or the end of the context, and
\* return nil.
StartReturn ==
    /\ startPC = "select"
    /\ signalled \/ cancelled
    /\ startPC' = "returned"
    /\ UNCHANGED <<consumePC, readyClosed, startWaits, signalled>>

\* consumer.Consume sets up a session: Setup closes w.ready.
Setup ==
    /\ startPC # "start"
    /\ consumePC = "consume"
    /\ consumePC' = "session"
    /\ readyClosed' = TRUE
    /\ UNCHANGED <<startPC, startWaits, signalled>>

\* consumer.Consume returns without a session: the broker cannot be
\* reached, the group cannot be joined, the context is over.
ConsumeFails ==
    /\ startPC # "start"
    /\ consumePC = "consume"
    /\ consumePC' = "check"
    /\ UNCHANGED <<startPC, readyClosed, startWaits, signalled>>

\* The session ends (rebalance, error, end of the context) once
\* ConsumeClaim has returned, and consumer.Consume returns.
SessionEnds ==
    /\ consumePC = "session"
    /\ wpc = "idle"
    /\ consumePC' = "check"
    /\ UNCHANGED <<startPC, readyClosed, startWaits, signalled>>

\* After consumer.Consume: leave when the context is over, otherwise put
\* a new channel into w.ready and call Consume again.
AfterConsume ==
    /\ consumePC = "check"
    /\ IF cancelled
         THEN /\ consumePC' = "exited"
              /\ UNCHANGED <<readyClosed, startWaits>>
         ELSE /\ consumePC' = "consume"
              /\ readyClosed' = FALSE
              /\ startWaits' = IF startWaits # "ready" THEN startWaits
                                ELSE IF readyClosed THEN "closed"
                                ELSE "open"
    /\ UNCHANGED <<startPC, signalled>>

\* SIGINT or SIGTERM.
Signal ==
    /\ ~signalled
    /\ signalled' = TRUE
    /\ UNCHANGED <<startPC, consumePC, readyClosed, startWaits>>

\* --------------------------------------------------------- environment
\* The worker's context is cancelled, or SIGINT or SIGTERM arrives:
\* Worker.Start returns and consumer.Consume ends the session.  processJob
\* works on context.Background() and its loop does not look at the
\* cancellation.
Cancel ==
    /\ ~cancelled
    /\ cancelled' = TRUE
    /\ UNCHANGED <<retryMax, asideVars, storeVars, brokerVars, workerVars,
                   faults>>

\* The worker process stops (crash, kill, rebalance, exit after a
\* cancellation or a panic) and a member of the group resumes the partition
\* at the marked offset.
Crash ==
    /\ wpc # "idle" \/ cancelled
    /\ wpc' = "idle"
    /\ woff' = marked
    /\ cancelled' = FALSE
    /\ faults' = TRUE
    /\ ResetLocals
    /\ UNCHANGED <<retryMax, asideVars, storeVars, brokerVars>>

\* A producer outside the submission service publishes a value that is not
\* JSON.
PublishMalformed ==
    /\ Cardinality({i \in 1..Len(topic) : ~Parses(topic[i])}) < MaxMalformed
    /\ topic' = Append(topic, Malformed)
    /\ UNCHANGED <<retryMax, asideVars, cancelled, storeVars, marked,
                   workerVars, faults>>

\* The staging TTL of job:{id}:payload runs out.
ExpirePayload(id) ==
    /\ redisPayload[id]
    /\ redisPayload' = [redisPayload EXCEPT ![id] = FALSE]
    /\ faults' = TRUE
    /\ UNCHANGED <<retryMax, asideVars, cancelled, nextID, jobs, redisStatus,
                   redisResult, brokerVars, workerVars>>

Names == {"", "Test Job"}
RequestTypes == {"test_job"}

\* The requests to consider: a request without a name is refused before
\* any call that could fail, and the kind of source matters to the handler
\* at the staging step only.
FailsOf(name) == IF name = "" THEN {"none"} ELSE CreateJobFails
SourcesOf(fail) == IF fail = "stage" THEN Sources ELSE {"url"}

CreateJob ==
    \E name \in Names, type \in RequestTypes :
       \E fail \in FailsOf(name) : handleCreateJob(name, type, fail)

\* The store, the cache, the broker and the worker never read the staging
\* directory: the system is followed without it here and with it in
\* SpecStaging.
PDFParseJob ==
    \E name \in Names \ {""}, fail \in PDFParseFails :
       \E source \in SourcesOf(fail) :
          handlePDFParseJob(name, source, fail) /\ UNCHANGED files

\* Nothing the worker, the store, the cache or the broker does reads the
\* parsing tracker: the system is followed without it here and with it in
\* SpecDelivery.
ProcessJobLogic ==
    \E getOk \in BOOLEAN :
       \E run \in RunsOf(getOk) :
          \E setOk \in SetsOf(getOk, run) :
             Attempt(getOk, run, setOk) /\ UNCHANGED trackerVars

ProcessJobUpdate ==
    \E dbOk \in BOOLEAN, redisOk \in BOOLEAN : UpdateStatus(dbOk, redisOk)

PayloadTTL == \E id \in JobIds : ExpirePayload(id)

Next ==
    \/ CreateJob
    \/ PDFParseJob
    \/ Receive
    \/ ProcessJobLogic
    \/ ProcessJobUpdate
    \/ MarkMessage
    \/ Crash
    \/ PublishMalformed
    \/ PayloadTTL

Spec == Init /\ [][Next]_vars

\* The system with the shutdown of the worker, fed by the submission
\* service only.
NextShutdown ==
    \/ CreateJob
    \/ PDFParseJob
    \/ Receive
    \/ ProcessJobLogic
    \/ ProcessJobUpdate
    \/ MarkMessage
    \/ Cancel
    \/ Crash
    \/ PayloadTTL

SpecShutdown == Init /\ [][NextShutdown]_vars

\* ------------------------------------------------- the staging directory
\* POST /api/jobs/parse-document with the file it stages.
StagePDF(name, source, fail) ==
    /\ handlePDFParseJob(name, source, fail)
    /\ files' = IF StagedFileKept(source, fail)
                  THEN [files EXCEPT ![nextID] = TRUE] ELSE files

\* The goroutine a successful parse-document call leaves behind: after the
\* staging TTL it deletes the staged file.
CleanupFile(id) ==
    /\ files[id]
    /\ \E i \in 1..Len(topic) : topic[i] = JobMessage(id, JobTypePDFParse)
    /\ files' = [files EXCEPT ![id] = FALSE]
    /\ UNCHANGED <<retryMax, storageVars, trackerVars, subscriberVars,
                   timeVars, lifecycleVars, creating, cancelled, storeVars,
                   brokerVars, workerVars, faults>>

StagedPDFParseJob ==
    \E name \in Names \ {""}, fail \in PDFParseFails :
       \E source \in SourcesOf(fail) : StagePDF(name, source, fail)

FileTTL == \E id \in JobIds : CleanupFile(id)

\* The submission service with its staging directory, and a worker that
\* is never restarted.
NextStaging ==
    \/ CreateJob
    \/ StagedPDFParseJob
    \/ PayloadTTL
    \/ FileTTL
    \/ Receive
    \/ ProcessJobLogic
    \/ ProcessJobUpdate
    \/ MarkMessage

SpecStaging == Init /\ [][NextStaging]_vars

\* A part of the system that is followed by itself does not depend on the
\* configuration of the worker.
InitPart == Init /\ retryMax = 0

\* ------------------------------------------------- the tracker by itself
appVars ==
    <<retryMax, storeVars, brokerVars, cancelled, workerVars, files,
      storageVars, lifecycleVars, creating, faults>>
\* With the subscribers and the clock left alone.
quietVars == <<appVars, subscriberVars, timeVars>>

\* What the tracker has counted so far.
Counted == metrics.total + metrics.success + metrics.failure + metrics.retry

\* The runs to consider: for the tracker an LLM error, a failed response
\* write and unparsable LLM output are one kind of attempt.
TrackerRuns ==
    {run \in HandlerRuns :
        \A i \in 1..Len(run) : run[i] \notin {"db_err", "bad_json"}}

UpdateDocument ==
    /\ Counted < MaxCounted
    /\ \E d \in DocIds, status \in DocumentStatuses :
          TrackerUpdateStatus(d, status)
    /\ UNCHANGED quietVars

ParseDocument ==
    /\ Counted < MaxCounted
    /\ \E d \in DocIds, run \in TrackerRuns :
          ParseDocumentWithTracking(d, run)
    /\ UNCHANGED quietVars

NextTracker ==
    \/ UpdateDocument
    \/ ParseDocument

SpecTracker == InitPart /\ [][NextTracker]_vars

\* ------------------------------------- create calls, step by step
Request == \E path \in CreatePaths : BeginCreate(path)

RequestStep == \E ok \in BOOLEAN : CreateStep(ok)

\* The submission service with its calls taken step by step, and the
\* worker.
NextCreate ==
    \/ Request
    \/ RequestStep
    \/ Receive
    \/ ProcessJobLogic
    \/ ProcessJobUpdate
    \/ MarkMessage

SpecCreate == Init /\ [][NextCreate]_vars

\* ------------------------------------------- the worker from its start
lifelessVars ==
    <<retryMax, storeVars, brokerVars, workerVars, files, storageVars,
      trackerVars, subscriberVars, timeVars, creating, faults>>

WorkerStart == StartSpawn /\ UNCHANGED <<cancelled, lifelessVars>>

ReadyWait == StartReadsReady /\ UNCHANGED <<cancelled, lifelessVars>>

ReadyReceived == StartReady /\ UNCHANGED <<cancelled, lifelessVars>>

Shutdown == StartReturn /\ UNCHANGED <<cancelled, lifelessVars>>

SessionSetup == Setup /\ UNCHANGED <<cancelled, lifelessVars>>

ConsumeReturns == ConsumeFails /\ UNCHANGED <<cancelled, lifelessVars>>

SessionCleanup == SessionEnds /\ UNCHANGED <<cancelled, lifelessVars>>

ConsumeLoop == AfterConsume /\ UNCHANGED <<cancelled, lifelessVars>>

ShutdownSignal == Signal /\ UNCHANGED <<cancelled, lifelessVars>>

\* ConsumeClaim gets messages while a session is up.
SessionReceive == consumePC = "session" /\ Receive

StartSteps == WorkerStart \/ ReadyWait \/ ReadyReceived \/ Shutdown

ConsumeSteps ==
    SessionSetup \/ ConsumeReturns \/ SessionCleanup \/ ConsumeLoop

NextLifecycle ==
    \/ CreateJob
    \/ SessionReceive
    \/ ProcessJobLogic
    \/ ProcessJobUpdate
    \/ MarkMessage
    \/ Cancel
    \/ ShutdownSignal
    \/ WorkerStart
    \/ ReadyWait
    \/ ReadyReceived
    \/ Shutdown
    \/ SessionSetup
    \/ ConsumeReturns
    \/ SessionCleanup
    \/ ConsumeLoop

\* Each goroutine gets its turn; whether the broker lets a session come up
\* is not for the worker to say.
SpecLifecycle ==
    /\ Init
    /\ [][NextLifecycle]_vars
    /\ WF_vars(StartSteps)
    /\ WF_vars(ConsumeSteps)

\* ---------------------------------------- the tracker with subscribers
\* A tracker made with webhooks disabled or enabled.
InitSubscribers ==
    /\ InitApp
    /\ retryMax = 0
    /\ webhook \in {[enabled |-> e, sending |-> 0] : e \in BOOLEAN}

SubscribeChannel ==
    \E ch \in Chans :
       Subscribe(ch) /\ UNCHANGED <<appVars, trackerVars, timeVars>>

UnsubscribeChannel ==
    \E ch \in Chans :
       Unsubscribe(ch) /\ UNCHANGED <<appVars, trackerVars, timeVars>>

\* The calls to consider: the callers are goroutines like one another, so
\* the call is made by the first that is free; for the subscribers a status
\* is like another and a document is like another.
FreeCaller(c) ==
    /\ ~inflight[c].busy
    /\ \A other \in Callers : other < c => inflight[other].busy

NotifiedStatuses == {StatusParsing}
NotifiedDocs == {1}

UpdateCall ==
    \E c \in Callers, d \in NotifiedDocs, status \in NotifiedStatuses :
       /\ FreeCaller(c)
       /\ UpdateStatusLocked(c, d, status)
       /\ UNCHANGED <<appVars, timeVars>>

NotifyBy(c) == NotifySubscriber(c) /\ UNCHANGED <<appVars, timeVars>>

Notify == \E c \in Callers : NotifyBy(c)

Take ==
    \E ch \in Chans :
       TakeUpdate(ch) /\ UNCHANGED <<appVars, trackerVars, timeVars>>

WebhookDone == WebhookSent /\ UNCHANGED <<appVars, trackerVars, timeVars>>

NextSubscribers ==
    \/ SubscribeChannel
    \/ UnsubscribeChannel
    \/ UpdateCall
    \/ Notify
    \/ Take
    \/ WebhookDone

SpecSubscribers == InitSubscribers /\ [][NextSubscribers]_vars

\* -------------------------------------------- the tracker with its clock
UpdateAt ==
    /\ Counted < MaxCounted
    /\ \E d \in DocIds, status \in DocumentStatuses :
          TimedUpdateStatus(d, status)
    /\ UNCHANGED <<appVars, subscriberVars>>

ClockTick == Tick /\ UNCHANGED <<appVars, trackerVars, subscriberVars>>

NextTiming ==
    \/ UpdateAt
    \/ ClockTick

SpecTiming == InitPart /\ [][NextTiming]_vars

\* ------------------------------------------ the worker with the tracker
\* ParseDocumentHandler: the payload the submission service staged has no
\* documentID, so the handler makes one from the time of day, to the
\* second: two runs get the same identifier or different ones.
ParseDocumentHandler(getOk, run, setOk, d) ==
    /\ Attempt(getOk, run, setOk)
    /\ IF HandlerRan(CurrentMessage, getOk)
         THEN ParseDocumentWithTracking(d, run)
         ELSE UNCHANGED trackerVars

DocsOf(getOk) ==
    IF wpc = "loop" /\ HandlerRan(CurrentMessage, getOk)
      THEN DocIds ELSE {1}

TrackedJobLogic ==
    \E getOk \in BOOLEAN :
       \E run \in RunsOf(getOk), d \in DocsOf(getOk) :
          \E setOk \in SetsOf(getOk, run) :
             ParseDocumentHandler(getOk, run, setOk, d)

\* The system with the tracker of the worker process, which is never
\* restarted.
NextDelivery ==
    \/ CreateJob
    \/ PDFParseJob
    \/ Receive
    \/ TrackedJobLogic
    \/ ProcessJobUpdate
    \/ MarkMessage
    \/ PayloadTTL

SpecDelivery == Init /\ [][NextDelivery]_vars

\* ------------------------------------------------- the storage by itself
systemVars ==
    <<retryMax, storeVars, brokerVars, cancelled, workerVars, files,
      trackerVars, subscriberVars, timeVars, lifecycleVars, creating,
      faults>>

StoreFile ==
    \E name \in TempNames, ok \in BOOLEAN :
       Store(name, ok) /\ UNCHANGED systemVars

DeleteFile == \E p \in Paths : Delete(p) /\ UNCHANGED systemVars

OtherFile == \E f \in FilePaths : WriteFile(f) /\ UNCHANGED systemVars

NextStorage ==
    \/ StoreFile
    \/ DeleteFile
    \/ OtherFile

SpecStorage == InitPart /\ [][NextStorage]_vars

TypeOK ==
    /\ retryMax \in 0..MaxRetryMax
    /\ nextID \in 1..(MaxJobs + 1)
    /\ \A id \in JobIds :
          /\ jobs[id].present = (id < nextID)
          /\ jobs[id].present => jobs[id].status \in Statuses
          /\ redisStatus[id] \in Statuses \cup {NoStatus}
    /\ marked <= woff /\ woff <= Len(topic)
    /\ wpc \in {"idle", "loop", "update", "mark", "dead"}
    /\ cancelled \in BOOLEAN
    /\ files \in [JobIds -> BOOLEAN]
    /\ disk \subseteq FilePaths
    /\ Cardinality(disk) <= MaxFiles
    /\ delErr \in {"nil", "invalid file path", "remove"}
    /\ \A d \in DocIds :
          /\ statuses[d].seen \in BOOLEAN
          /\ statuses[d].seen => statuses[d].status \in DocumentStatuses
          /\ statuses[d].retryCount \in Nat
    /\ \A c \in {"total", "success", "failure", "retry"} : metrics[c] \in Nat
    /\ extractor.failures <= extractor.calls
    /\ subscribers \in Seq(Chans) /\ Len(subscribers) <= MaxSubscribers
    /\ \A ch \in Chans : Len(chans[ch]) <= ChanCap
    /\ \A c \in Callers :
          inflight[c].busy
             => /\ inflight[c].rest # <<>>
                /\ inflight[c].update.n \in 1..applied
    /\ webhook.enabled \in BOOLEAN /\ webhook.sending \in 0..applied
    /\ \A ch \in Chans : accepted[ch] \in 0..applied
    /\ now \in 0..MaxClock
    /\ \A d \in DocIds :
          firstRecord[d] <= timestamps[d] /\ timestamps[d] <= now
    /\ processing.total \in Nat /\ processing.average \in Nat
    /\ startPC \in {"start", "spawned", "wait", "select", "returned"}
    /\ consumePC \in {"consume", "session", "check", "exited"}
    /\ startWaits \in {"none", "ready", "open", "closed"}
    /\ consumePC = "session" => readyClosed
    /\ creating.busy
          => /\ creating.path \in CreatePaths
             /\ creating.pos \in 1..Len(PathSteps(creating.path))

\* ------------------------------------------------------- properties
Terminal == {StatusCompleted, StatusFailed}

\* C1: the offset of a job message is marked as processed only after the
\* status UPDATE of that delivery has been performed, and a worker that
\* stops before the mark leaves the offset unmarked, so that the message is
\* delivered again.
C1_MarkAfterDurableWrite ==
    [][/\ (marked' # marked /\ Parses(CurrentMessage)) => wrote
       /\ (wpc # "idle" /\ wpc' = "idle" /\ marked' = marked)
             => woff' = marked]_vars

\* C2: when the handler succeeded and the UPDATE to `completed` failed, the
\* offset of the message is not marked as processed.
C2_FailedWriteNotMarked ==
    [][(wpc = "mark" /\ calls >= 1 /\ ~err /\ ~wrote)
          => marked' = marked]_vars

\* C3: no job is still `pending` once the offset of its message has been
\* marked as processed: every marked message left its job `completed` or
\* `failed`.
C3_MarkedJobTerminal ==
    \A i \in 1..marked :
       Parses(topic[i]) => jobs[topic[i].id].status \in Terminal

C5_NoOrphanPendingRow ==
    \A id \in JobIds :
       (jobs[id].present /\ jobs[id].status = StatusPending)
          => \E i \in 1..Len(topic) : topic[i].id = id

\* C6: a delivery whose handler failed on every attempt has run the handler
\* exactly retry_max + 1 times when it writes `failed`, and no delivery
\* runs it more often.
C6_RetryMaxPlusOneAttempts ==
    /\ calls <= retryMax + 1
    /\ (wpc = "update" /\ err) => calls = retryMax + 1

\* C7: a durable status of `completed` is never changed again.
C7_CompletedIsFinal ==
    [][\A id \in JobIds :
          jobs[id].status = StatusCompleted
             => jobs'[id].status = StatusCompleted]_vars

\* C8: processing a message again, after a delivery that left the row and
\* job:{id} at one terminal status, leaves both at that status.
C8_RedeliverySameStatus ==
    [][(/\ wpc = "update" /\ wpc' = "mark"
        /\ jobs[CurrentMessage.id].status \in Terminal
        /\ redisStatus[CurrentMessage.id] = jobs[CurrentMessage.id].status)
          => /\ jobs'[CurrentMessage.id].status
                  = jobs[CurrentMessage.id].status
             /\ redisStatus'[CurrentMessage.id]
                  = redisStatus[CurrentMessage.id]]_vars

\* C9: the response of a job is set if and only if its terminal status is
\* `completed`.
C9_ResponseIffCompleted ==
    \A id \in JobIds :
       /\ jobs[id].status = StatusCompleted => jobs[id].response
       /\ jobs[id].status = StatusFailed => ~jobs[id].response

\* C10: a generic job created through POST /api/jobs has, after one worker
\* cycle over its message in which no store, cache or broker call failed,
\* durable status `completed` and job:{id} equal to `completed`.
C10_GenericJobCompleted ==
    \A i \in 1..marked :
       (topic[i].type = GenericType /\ ~faults)
          => /\ jobs[topic[i].id].status = StatusCompleted
             /\ redisStatus[topic[i].id] = StatusCompleted

\* C11: a message whose job type has no specific handler is a no-op
\* success: when no call failed, processJob returns no error for it and the
\* job's status has been advanced to `completed`.
C11_UnhandledTypeCompleted ==
    (/\ wpc = "mark" /\ Parses(CurrentMessage)
     /\ CurrentMessage.type # JobTypePDFParse /\ ~faults)
       => /\ ~retErr
          /\ jobs[CurrentMessage.id].status = StatusCompleted

\* The step is the worker's mark of the current message (the session moves
\* on to the next offset).
MarkStep == wpc = "mark" /\ woff' = woff + 1

\* C12: a message that is not JSON causes no write to the jobs table and
\* no write to the cache; processJob returns the parse error, the offset of
\* the message is marked as processed all the same, and the worker is then
\* ready for the message that follows.
C12_MalformedSkipped ==
    [][(wpc' # wpc /\ woff < Len(topic) /\ ~Parses(CurrentMessage))
          => /\ UNCHANGED storeVars
             /\ wpc = "idle" => (wpc' = "mark" /\ retErr' /\ calls' = 0)
             /\ MarkStep => (marked' = woff + 1 /\ wpc' = "idle")]_vars

\* A malformed message was marked and the message after it has been
\* handled and marked too.
C12_Witness ==
    /\ marked = 2
    /\ ~Parses(topic[1])
    /\ Parses(topic[2])
    /\ jobs[topic[2].id].status \in Terminal

\* C13: a panic inside a handler is caught and counted as a failed attempt,
\* and the retry path goes on: a panic never terminates the worker and
\* never ends the handling of a message before its status write.
C13_PanicCaught == wpc # "dead"

\* C14: once the cancellation has arrived, a message that is in the retry
\* loop gets no further handler attempt.
C14_NoAttemptAfterCancel ==
    [][(cancelled /\ wpc = "loop") => calls' = calls]_vars

\* C15: GET /api/jobs/:id and GET /api/jobs return, for every job, the
\* value of job:{id} as status when that key is present and the row's
\* status otherwise, and every other returned field is the row's.
C15_GetOverlaysCache ==
    \A id \in JobIds :
       jobs[id].present
          => \A got \in {handleGetJob(id, TRUE).job,
                          handleListJobs(TRUE)[nextID - id]} :
                /\ got.status = IF redisStatus[id] # NoStatus
                                  THEN redisStatus[id] ELSE jobs[id].status
                /\ got.id = id
                /\ got.name = jobs[id].name
                /\ got.type = jobs[id].type

\* C16: right after POST /api/jobs has succeeded for a request with name n
\* and type t, GET /api/jobs/:id of the returned id returns a job with name
\* n and type t.
C16_GetAfterCreate ==
    [][\A name \in Names, type \in RequestTypes, fail \in CreateJobFails,
         id \in JobIds :
          (/\ CreateJobCode(name, fail) = 200
           /\ id = nextID
           /\ handleCreateJob(name, type, fail))
             => /\ handleGetJob(id, TRUE)'.code = 200
                /\ handleGetJob(id, TRUE)'.job.name = name
                /\ handleGetJob(id, TRUE)'.job.type = type]_vars

\* C17: the broker accepts the message of a create call only after the row
\* of the job was inserted: every job message on the topic has its row,
\* and the worker never handles a job message whose row does not exist.
C17_RowBeforeMessage ==
    /\ \A i \in 1..Len(topic) :
          Parses(topic[i]) => jobs[topic[i].id].present
    /\ (wpc \in {"loop", "update", "mark"} /\ Parses(CurrentMessage))
          => jobs[CurrentMessage.id].present

\* The worker handles the message of a create call.
C17_Witness ==
    /\ wpc = "update"
    /\ CurrentMessage.type = JobTypePDFParse
    /\ jobs[CurrentMessage.id].present

\* C18: within the partition the worker starts to handle a message only
\* after the handling of the message before it has finished and its offset
\* was marked: while a message is handled every earlier offset is marked,
\* offsets are taken one by one in offset order, and an offset is marked
\* only at the end of its handling.
C18_OneAtATime ==
    [][/\ (wpc' # "idle") => marked' = woff'
       /\ (wpc = "idle" /\ wpc' # "idle") => (woff' = woff /\ woff = marked)
       /\ (marked' # marked) => (wpc = "mark" /\ marked' = marked + 1)]_vars

\* The worker handles the second message of the partition.
C18_Witness ==
    /\ wpc \in {"loop", "update"}
    /\ woff = 1
    /\ marked = 1

\* C19: the status of a pdf_parse job is set to `completed` only after
\* job:{id}:result was written with success during that same delivery.
C19_CompletedAfterResult ==
    [][(/\ wpc = "update" /\ wpc' = "mark"
        /\ CurrentMessage.type = JobTypePDFParse
        /\ \/ (wrote' /\ jobs'[CurrentMessage.id].status = StatusCompleted)
           \/ (/\ redisStatus'[CurrentMessage.id] = StatusCompleted
               /\ redisStatus[CurrentMessage.id] # StatusCompleted))
          => resultSet]_vars

\* C20: a parse-document create call whose staging of the PDF fails (the
\* download of a URL source, the file write of a base64 source) returns
\* 500, inserts no row, writes no cache key and publishes no message.
C20_StageFailureNoEffect ==
    [][\A name \in Names \ {""}, source \in Sources :
          handlePDFParseJob(name, source, "stage")
             => /\ PDFParseCode(PDFParseSeen(source, "stage")) = 500
                /\ UNCHANGED <<nextID, jobs, redisStatus, redisPayload,
                               topic>>]_vars

\* The steps of a parse-document create call that come after the staging.
AfterStaging == {"marshal", "db", "payload", "status", "kafka"}

C22_RejectedNoEffect ==
    [][\A name \in Names \ {""}, source \in Sources :
          StagePDF(name, source, "validate")
             => /\ PDFParseCode(PDFParseSeen(source, "validate")) = 400
                /\ UNCHANGED <<storeVars, brokerVars, files>>]_vars

\* A request can be refused while the row, the cache keys, the message and
\* the staged file of an earlier call are there.
C22_Witness ==
    /\ jobs[1].present
    /\ redisPayload[1]
    /\ redisStatus[1] = StatusPending
    /\ files[1]
    /\ \E i \in 1..Len(topic) : topic[i].id = 1

\* C23: Delete removes a file only when its path is a descendant of the
\* staging directory; for every other path it returns an error and removes
\* nothing; and every path that StoreFromURL or StoreFromBytes returns is
\* such a descendant.
C23_DeleteOnlyInStagingDir ==
    [][/\ \A p \in Paths :
             Delete(p)
                => /\ disk' # disk => Descendant(p)
                   /\ ~Descendant(p) => (delErr' # "nil" /\ disk' = disk)
       /\ \A name \in TempNames :
             Store(name, TRUE)
                => /\ Descendant(CreateTemp(name))
                   /\ Resolve(CreateTemp(name)) \in disk']_vars

\* C24: for every document the tracker holds, the retry count of its entry
\* never exceeds the configured maximum of retries plus one, whatever
\* UpdateStatus calls and handler runs were made, repeated runs for one
\* document included.
C24_RetryCountBounded ==
    \A d \in DocIds : statuses[d].retryCount <= TrackerMaxRetries + 1

\* C25: every UpdateStatus to `retrying` sets the retry count of the entry
\* to the previous count plus one, counting from zero for a document the
\* tracker has not seen; an update to any other stage leaves the count as
\* it was.
C25_RetryingCounts ==
    [][\A d \in DocIds, status \in DocumentStatuses :
          TrackerUpdateStatus(d, status)
             => LET before == IF statuses[d].seen
                                THEN statuses[d].retryCount ELSE 0
                IN  statuses'[d].retryCount
                      = IF status = StatusRetrying
                          THEN before + 1 ELSE before]_vars

\* C26: ShouldRetry(d) is true exactly when the entry of d is at `failed`
\* with a retry count below the configured maximum; it is false in every
\* other case, a document without entry included.
C26_ShouldRetryExact ==
    \A d \in DocIds :
       ShouldRetry(d)
          <=> /\ statuses[d] # NoDocument
              /\ statuses[d].status = "failed"
              /\ statuses[d].retryCount + 1 <= TrackerMaxRetries

\* A document is at `failed` with its retries used up, and the tracker
\* refuses another retry.
C26_Witness ==
    \E d \in DocIds :
       /\ statuses[d].status = StatusFailed
       /\ statuses[d].retryCount = TrackerMaxRetries
       /\ ~ShouldRetry(d)

\* sub occurs in seq as a subsequence: its elements, in its order, not
\* necessarily next to one another.
RECURSIVE Contains(_, _)
Contains(seq, sub) ==
    IF sub = <<>> THEN TRUE
    ELSE IF seq = <<>> THEN FALSE
    ELSE IF Head(seq) = Head(sub) THEN Contains(Tail(seq), Tail(sub))
    ELSE Contains(Tail(seq), sub)

\* C27: a run with at least one retry allowed, whose extractor fails on the
\* first attempt and succeeds on the second, hands the tracker a sequence
\* of stages that contains, in this order, uploaded, parsing, failed,
\* retrying, parsing, converting, complete; and the extractor is called
\* exactly twice.
C27_RetryStageSequence ==
    [][\A d \in DocIds :
          ParseDocumentWithTracking(d, <<"extract_err", "ok">>)
             => /\ Contains(stages',
                            <<"uploaded", "parsing", "failed", "retrying",
                              "parsing", "converting", "complete">>)
                /\ extractor'.calls = extractor.calls + 2
                /\ extractor'.failures = extractor.failures + 1]_vars

\* The first run on a new tracker failed in the extractor once and then
\* succeeded.
C27_Witness ==
    /\ extractor = [calls |-> 2, failures |-> 1]
    /\ Len(stages) = 9
    /\ stages[4] = StatusFailed
    /\ stages[5] = StatusRetrying
    /\ stages[9] = StatusComplete
    /\ \E d \in DocIds : statuses[d].status = StatusComplete

\* C28: the failure count of the metrics goes up only when a document
\* reaches `failed` with its retries used up; a document that fails once
\* and then succeeds on the retry leaves the metrics of a new tracker at
\* total = 1, success = 1, retry >= 1 and failure = 0.
C28_FailureCountTerminalOnly ==
    [][/\ metrics'.failure # metrics.failure
             => \E d \in DocIds :
                   /\ statuses'[d].status = StatusFailed
                   /\ statuses'[d].retryCount >= TrackerMaxRetries
       /\ \A d \in DocIds :
             (/\ metrics = NoMetrics
              /\ ParseDocumentWithTracking(d, <<"extract_err", "ok">>))
                => /\ metrics'.total = 1
                   /\ metrics'.success = 1
                   /\ metrics'.retry >= 1
                   /\ metrics'.failure = 0]_vars

\* C30: the total count of the metrics is the number of distinct document
\* identifiers the tracker has seen: it goes up once per document, on the
\* first update of that document, and never again.
C30_TotalIsDistinctDocuments ==
    metrics.total = Cardinality({d \in DocIds : statuses[d].seen})

\* C29: for a pdf_parse job whose extractor fails on every attempt, the
\* handling of one delivery of its message ends with the durable status
\* `failed` and job:{id} equal to `failed`, and the metrics of the tracker
\* show total = 1, success = 0 and failure = 1.
C29_FailedDeliveryMetrics ==
    [][(/\ UpdateStatus(TRUE, TRUE)
        /\ CurrentMessage.type = JobTypePDFParse
        /\ woff = 0
        /\ calls >= 1
        /\ extractor.calls = calls * MaxAttempts
        /\ extractor.failures = extractor.calls)
          => /\ jobs'[CurrentMessage.id].status = StatusFailed
             /\ redisStatus'[CurrentMessage.id] = StatusFailed
             /\ metrics.total = 1
             /\ metrics.success = 0
             /\ metrics.failure = 1]_vars

\* C31: UpdateStatus never waits for a subscriber or for the webhook.  A
\* call that has left the lock can take every turn of its loop at once,
\* whatever the channels hold and whatever the webhook goroutines do; a
\* turn hands the update to a channel that has room, leaves a channel
\* that has none as it is, and moves on to the next subscriber, so that
\* the call returns after as many turns as it copied subscribers.
C31_UpdateStatusNeverWaits ==
    /\ [](\A c \in Callers : inflight[c].busy => ENABLED NotifyBy(c))
    /\ [][\A c \in Callers :
            NotifyBy(c) =>
               LET ch == Head(inflight[c].rest)
                   rest == Tail(inflight[c].rest)
               IN  /\ chans'[ch] =
                         IF Len(chans[ch]) < ChanCap
                           THEN Append(chans[ch], inflight[c].update)
                           ELSE chans[ch]
                   /\ \A other \in Chans \ {ch} :
                         chans'[other] = chans[other]
                   /\ inflight'[c].rest = rest
                   /\ inflight'[c].busy = (rest # <<>>)]_vars

\* Every call has returned while the webhook of each update is still being
\* sent, and a subscriber whose channel was full missed the last update.
C31_Witness ==
    /\ \A c \in Callers : ~inflight[c].busy
    /\ applied > 1
    /\ webhook.sending = applied
    /\ \E ch \in Range(subscribers) :
          /\ Len(chans[ch]) = ChanCap
          /\ accepted[ch] < applied

\* C32: a channel that is not in the subscriber list (Unsubscribe has
\* returned for it as often as it was subscribed) is handed no update,
\* also by a call that was running when it was unsubscribed; Unsubscribe
\* takes the first entry that is the channel out of the list and leaves a
\* list without the channel as it is.
C32_NoUpdateAfterUnsubscribe ==
    [][/\ \A ch \in Chans \ Range(subscribers) :
             /\ accepted'[ch] = accepted[ch]
             /\ Len(chans'[ch]) <= Len(chans[ch])
       /\ \A ch \in Chans :
             Unsubscribe(ch) =>
                IF ch \in Range(subscribers)
                  THEN \E i \in 1..Len(subscribers) :
                          /\ subscribers[i] = ch
                          /\ \A j \in 1..(i - 1) : subscribers[j] # ch
                          /\ subscribers' =
                                SubSeq(subscribers, 1, i - 1)
                                  \o SubSeq(subscribers, i + 1,
                                            Len(subscribers))
                  ELSE subscribers' = subscribers]_vars

\* C33: the updates of one document reach a subscriber in the order in
\* which the tracker stored them: a channel never accepts an update that
\* was stored before the update it accepted last (the calls of
\* SpecSubscribers are all for one document).
C33_DeliveredInAppliedOrder ==
    [][\A ch \in Chans :
          accepted'[ch] # accepted[ch] => accepted'[ch] > accepted[ch]]_vars

\* C39: when a document is recorded `complete`, the total processing time
\* grows by the time that has passed since the first record of that
\* document, and the average is the total divided by the number of
\* successes.
C39_ProcessingTimeFromFirstRecord ==
    [][\A d \in DocIds :
          TimedUpdateStatus(d, StatusComplete) =>
             /\ processing'.total - processing.total
                   = now - firstRecord'[d]
             /\ processing'.average
                   = processing'.total \div metrics'.success]_vars

\* C34: Start returns once the context is cancelled, whether or not a
\* session was ever set up; when a session is set up Start gets past its
\* wait for w.ready; and it returns on a signal or on the end of the
\* context only.
C34_StartReturnsOnCancel ==
    /\ cancelled ~> startPC = "returned"
    /\ consumePC = "session" ~> startPC \in {"select", "returned"}
    /\ [][(startPC # "returned" /\ startPC' = "returned")
             => (cancelled \/ signalled)]_vars

\* C35: the worker writes `completed` to the row of a job only when a call
\* of processJobLogic was made in this delivery and the last one returned
\* no error, whatever retry_max is.
C35_CompletedNeedsSuccess ==
    [][(/\ wpc = "update"
        /\ wrote'
        /\ jobs'[CurrentMessage.id].status = StatusCompleted)
          => (calls >= 1 /\ ~err)]_vars

\* C36: when the offset of a job message is marked after processJob
\* returned, the cache key job:{id} and the row of the job hold the same
\* status.
C36_CacheEqualsRowWhenMarked ==
    [][(wpc = "mark" /\ marked' = woff + 1 /\ Parses(CurrentMessage))
          => redisStatus'[CurrentMessage.id]
               = jobs'[CurrentMessage.id].status]_vars

\* C37: when a run of the document-parse handler has made all its
\* MaxAttempts attempts and returned an error, the worker goes to its
\* failure path and does not call the handler again in this delivery; the
\* deliveries made so far have caused no more than MaxAttempts calls of
\* the extractor each.
C37_HandlerRetriesAreFinal ==
    /\ [](extractor.calls
            <= MaxAttempts * (woff + IF wpc = "idle" THEN 0 ELSE 1))
    /\ [][\A getOk \in BOOLEAN, run \in WorkerRuns, setOk \in BOOLEAN,
             d \in DocIds :
             (/\ wpc = "loop"
              /\ Len(run) = MaxAttempts
              /\ RunFails(run) /\ ~RunPanics(run)
              /\ HandlerRan(CurrentMessage, getOk)
              /\ ParseDocumentHandler(getOk, run, setOk, d))
                => (wpc' = "update" /\ err')]_vars

\* C38: on every create path the write of `pending` to job:{id} is made
\* before the message of the job is handed to the broker, so that it
\* never replaces a status the worker wrote for the job.
C38_PendingBeforePublish ==
    [][\A id \in JobIds :
          /\ (redisStatus[id] # StatusPending
                 /\ redisStatus'[id] = StatusPending)
                => ~\E i \in 1..Len(topic) : topic[i].id = id
          /\ redisStatus[id] \in Terminal
                => redisStatus'[id] # StatusPending]_vars

\* The worker has written the status of a job whose create call wrote
\* `pending` and has returned.
C38_Witness ==
    /\ ~creating.busy
    /\ \E id \in JobIds :
          /\ redisStatus[id] \in Terminal
          /\ \E i \in 1..Len(topic) : topic[i].id = id

====
